---- MODULE Spec2Model ----
(***************************************************************************)
(* Model of src-tauri/update_tauri_config.py: the script that patches      *)
(* bundle.resources of tauri.conf.json with the FFmpeg binaries of one     *)
(* platform.                                                               *)
(*                                                                         *)
(* Python strings are sequences of one-character strings, so that prefix,  *)
(* suffix and substring tests are computed.  A JSON value is a record      *)
(* [t, v]: t is the Python type json.load produces ("dict", "list", "str", *)
(* "int", "bool", "NoneType") and v the payload; a dict is the sequence of *)
(* its <<key, value>> items in insertion order.  A file is the sequence of *)
(* the lexical tokens it holds (punctuation, white space, scalars).        *)
(***************************************************************************)
EXTENDS Integers, Sequences, FiniteSets, TLC

\* ------------------------------------------------------------------ bounds
\* number of successive invocations on the same config file
MaxRuns == 2
\* number of pass-through top-level keys that surround "bundle" in the inputs
MaxExtraKeys == 1

\* ------------------------------------------------------- string literals
macos_aarch64 == <<"m", "a", "c", "o", "s", "-", "a", "a", "r", "c", "h", "6", "4">>
macos_x86_64 == <<"m", "a", "c", "o", "s", "-", "x", "8", "6", "_", "6", "4">>
linux_x86_64 == <<"l", "i", "n", "u", "x", "-", "x", "8", "6", "_", "6", "4">>
windows_x86_64 == <<"w", "i", "n", "d", "o", "w", "s", "-", "x", "8", "6", "_", "6", "4">>
\* an identifier the script does not know (spec section 8 uses it)
linux_arm64 == <<"l", "i", "n", "u", "x", "-", "a", "r", "m", "6", "4">>
bundle == <<"b", "u", "n", "d", "l", "e">>
resources == <<"r", "e", "s", "o", "u", "r", "c", "e", "s">>

\* platform_resources with the macos-x86_64 entry pasted from macos-aarch64
platform_resources_pasted ==
  << << macos_aarch64,
        << <<"b", "i", "n", "a", "r", "i", "e", "s", "/", "m", "a", "c", "o", "s", "-", "a", "a", "r", "c", "h", "6", "4", "/", "f", "f", "m", "p", "e", "g">>,
           <<"b", "i", "n", "a", "r", "i", "e", "s", "/", "m", "a", "c", "o", "s", "-", "a", "a", "r", "c", "h", "6", "4", "/", "f", "f", "p", "r", "o", "b", "e">> >> >>,
     << macos_x86_64,
        << <<"b", "i", "n", "a", "r", "i", "e", "s", "/", "m", "a", "c", "o", "s", "-", "a", "a", "r", "c", "h", "6", "4", "/", "f", "f", "m", "p", "e", "g">>,
           <<"b", "i", "n", "a", "r", "i", "e", "s", "/", "m", "a", "c", "o", "s", "-", "a", "a", "r", "c", "h", "6", "4", "/", "f", "f", "p", "r", "o", "b", "e">> >> >>,
     << linux_x86_64,
        << <<"b", "i", "n", "a", "r", "i", "e", "s", "/", "l", "i", "n", "u", "x", "-", "x", "8", "6", "_", "6", "4", "/", "f", "f", "m", "p", "e", "g">>,
           <<"b", "i", "n", "a", "r", "i", "e", "s", "/", "l", "i", "n", "u", "x", "-", "x", "8", "6", "_", "6", "4", "/", "f", "f", "p", "r", "o", "b", "e">> >> >>,
     << windows_x86_64,
        << <<"b", "i", "n", "a", "r", "i", "e", "s", "/", "w", "i", "n", "d", "o", "w", "s", "-", "x", "8", "6", "_", "6", "4", "/", "f", "f", "m", "p", "e", "g", ".", "e", "x", "e">>,
           <<"b", "i", "n", "a", "r", "i", "e", "s", "/", "w", "i", "n", "d", "o", "w", "s", "-", "x", "8", "6", "_", "6", "4", "/", "f", "f", "p", "r", "o", "b", "e", ".", "e", "x", "e">> >> >> >>

\* platform_resources, as an ordered list of (key, value) items
platform_resources ==
  << << macos_aarch64,
        << <<"b", "i", "n", "a", "r", "i", "e", "s", "/", "m", "a", "c", "o", "s", "-", "a", "a", "r", "c", "h", "6", "4", "/", "f", "f", "m", "p", "e", "g">>,
           <<"b", "i", "n", "a", "r", "i", "e", "s", "/", "m", "a", "c", "o", "s", "-", "a", "a", "r", "c", "h", "6", "4", "/", "f", "f", "p", "r", "o", "b", "e">> >> >>,
     << macos_x86_64,
        << <<"b", "i", "n", "a", "r", "i", "e", "s", "/", "m", "a", "c", "o", "s", "-", "x", "8", "6", "_", "6", "4", "/", "f", "f", "m", "p", "e", "g">>,
           <<"b", "i", "n", "a", "r", "i", "e", "s", "/", "m", "a", "c", "o", "s", "-", "x", "8", "6", "_", "6", "4", "/", "f", "f", "p", "r", "o", "b", "e">> >> >>,
     << linux_x86_64,
        << <<"b", "i", "n", "a", "r", "i", "e", "s", "/", "l", "i", "n", "u", "x", "-", "x", "8", "6", "_", "6", "4", "/", "f", "f", "m", "p", "e", "g">>,
           <<"b", "i", "n", "a", "r", "i", "e", "s", "/", "l", "i", "n", "u", "x", "-", "x", "8", "6", "_", "6", "4", "/", "f", "f", "p", "r", "o", "b", "e">> >> >>,
     << windows_x86_64,
        << <<"b", "i", "n", "a", "r", "i", "e", "s", "/", "w", "i", "n", "d", "o", "w", "s", "-", "x", "8", "6", "_", "6", "4", "/", "f", "f", "m", "p", "e", "g", ".", "e", "x", "e">>,
           <<"b", "i", "n", "a", "r", "i", "e", "s", "/", "w", "i", "n", "d", "o", "w", "s", "-", "x", "8", "6", "_", "6", "4", "/", "f", "f", "p", "r", "o", "b", "e", ".", "e", "x", "e">> >> >> >>

\* the choices=[...] list of the --platform option
platform_choices == <<macos_aarch64, macos_x86_64, linux_x86_64, windows_x86_64>>

\* ------------------------------------------------------- Python values
PyDict(items) == [t |-> "dict", v |-> items]
PyList(elems) == [t |-> "list", v |-> elems]
PyStr(chars) == [t |-> "str", v |-> chars]
PyInt(n) == [t |-> "int", v |-> n]
PyBool(b) == [t |-> "bool", v |-> b]
PyNone == [t |-> "NoneType", v |-> <<>>]
\* the value of a name that was never bound
Unbound == [t |-> "unbound", v |-> <<>>]

\* dict.keys(): the keys in insertion order
Keys(items) == [i \in 1..Len(items) |-> items[i][1]]

\* key in dict
HasKey(items, k) == \E i \in 1..Len(items) : items[i][1] = k

\* dict[k], for a key that is present
DictGet(items, k) == items[CHOOSE i \in 1..Len(items) : items[i][1] = k][2]

\* dict[k] = val: a present key keeps its position, a new key goes last
DictSet(items, k, val) ==
  IF HasKey(items, k)
  THEN [i \in 1..Len(items) |-> IF items[i][1] = k THEN <<k, val>> ELSE items[i]]
  ELSE Append(items, <<k, val>>)

\* sub in s, for two str
IsSubstring(sub, s) ==
  \E i \in 1..(Len(s) - Len(sub) + 1) : SubSeq(s, i, i + Len(sub) - 1) = sub

\* the outcome of `k in x`: "yes", "no", or "TypeError" when x is not a container
Contains(x, k) ==
  CASE x.t = "dict" -> IF HasKey(x.v, k) THEN "yes" ELSE "no"
    [] x.t = "list" -> IF \E i \in 1..Len(x.v) : x.v[i].t = "str" /\ x.v[i].v = k
                       THEN "yes" ELSE "no"
    [] x.t = "str" -> IF IsSubstring(k, x.v) THEN "yes" ELSE "no"
    [] OTHER -> "TypeError"

\* x[k] with a str key is defined (for reading and for assignment) only on a dict
Subscriptable(x) == x.t = "dict"

\* ------------------------------------------------------- file contents
Punct(c) == [t |-> "punct", v |-> c]
\* a line break followed by n spaces
Newline(n) == [t |-> "newline", v |-> n]
Space == [t |-> "space", v |-> 1]
\* characters that start no JSON token, as in `{invalid`
Junk == [t |-> "junk", v |-> <<>>]

IsWhitespace(tok) == tok.t \in {"newline", "space"}
IsScalar(tok) == tok.t \in {"str", "int", "bool", "NoneType"}
IsPunct(tok, c) == tok.t = "punct" /\ tok.v = c

\* json.dump(obj, f, indent=2, ensure_ascii=False): the chunks written, in order
RECURSIVE Encode(_, _), EncodeItems(_, _, _), EncodeElems(_, _, _)
Encode(x, level) ==
  CASE x.t = "dict" ->
         IF x.v = <<>> THEN <<Punct("{"), Punct("}")>>
         ELSE <<Punct("{"), Newline(2 * (level + 1))>>
              \o EncodeItems(x.v, 1, level + 1)
              \o <<Newline(2 * level), Punct("}")>>
    [] x.t = "list" ->
         IF x.v = <<>> THEN <<Punct("["), Punct("]")>>
         ELSE <<Punct("["), Newline(2 * (level + 1))>>
              \o EncodeElems(x.v, 1, level + 1)
              \o <<Newline(2 * level), Punct("]")>>
    [] OTHER -> <<x>>
EncodeItems(items, i, level) ==
  IF i > Len(items) THEN <<>>
  ELSE (IF i = 1 THEN <<>> ELSE <<Punct(","), Newline(2 * level)>>)
       \o <<PyStr(items[i][1]), Punct(":"), Space>>
       \o Encode(items[i][2], level)
       \o EncodeItems(items, i + 1, level)
EncodeElems(elems, i, level) ==
  IF i > Len(elems) THEN <<>>
  ELSE (IF i = 1 THEN <<>> ELSE <<Punct(","), Newline(2 * level)>>)
       \o Encode(elems[i], level)
       \o EncodeElems(elems, i + 1, level)

\* everything the write phase sends to the file: the document, then '\n'
FileText(x) == Encode(x, 0) \o <<Newline(0)>>

\* the same document without any white space, as a hand-written file may be
RECURSIVE Compact(_), CompactItems(_, _), CompactElems(_, _)
Compact(x) ==
  CASE x.t = "dict" -> <<Punct("{")>> \o CompactItems(x.v, 1) \o <<Punct("}")>>
    [] x.t = "list" -> <<Punct("[")>> \o CompactElems(x.v, 1) \o <<Punct("]")>>
    [] OTHER -> <<x>>
CompactItems(items, i) ==
  IF i > Len(items) THEN <<>>
  ELSE (IF i = 1 THEN <<>> ELSE <<Punct(",")>>)
       \o <<PyStr(items[i][1]), Punct(":")>> \o Compact(items[i][2])
       \o CompactItems(items, i + 1)
CompactElems(elems, i) ==
  IF i > Len(elems) THEN <<>>
  ELSE (IF i = 1 THEN <<>> ELSE <<Punct(",")>>)
       \o Compact(elems[i]) \o CompactElems(elems, i + 1)

\* json.load: a parse result is [ok, val, rest]
ParseFail == [ok |-> FALSE, val |-> Unbound, rest |-> <<>>]
ParseOk(x, rest) == [ok |-> TRUE, val |-> x, rest |-> rest]

RECURSIVE SkipWhitespace(_)
SkipWhitespace(toks) ==
  IF toks # <<>> /\ IsWhitespace(Head(toks)) THEN SkipWhitespace(Tail(toks)) ELSE toks

RECURSIVE ParseValue(_), ParseMembers(_, _), ParseElements(_, _)
ParseValue(toks) ==
  LET s == SkipWhitespace(toks) IN
  IF s = <<>> THEN ParseFail
  ELSE IF IsScalar(Head(s)) THEN ParseOk(Head(s), Tail(s))
  ELSE IF IsPunct(Head(s), "{") THEN
    LET r == SkipWhitespace(Tail(s)) IN
    IF r # <<>> /\ IsPunct(Head(r), "}") THEN ParseOk(PyDict(<<>>), Tail(r))
    ELSE ParseMembers(r, <<>>)
  ELSE IF IsPunct(Head(s), "[") THEN
    LET r == SkipWhitespace(Tail(s)) IN
    IF r # <<>> /\ IsPunct(Head(r), "]") THEN ParseOk(PyList(<<>>), Tail(r))
    ELSE ParseElements(r, <<>>)
  ELSE ParseFail
\* toks starts at a member; acc holds the items read so far
ParseMembers(toks, acc) ==
  LET s == SkipWhitespace(toks) IN
  IF s = <<>> \/ Head(s).t # "str" THEN ParseFail
  ELSE
    LET c == SkipWhitespace(Tail(s)) IN
    IF c = <<>> \/ ~IsPunct(Head(c), ":") THEN ParseFail
    ELSE
      LET val == ParseValue(Tail(c)) IN
      IF ~val.ok THEN ParseFail
      ELSE
        LET items == DictSet(acc, Head(s).v, val.val)
            e == SkipWhitespace(val.rest)
        IN IF e = <<>> THEN ParseFail
           ELSE IF IsPunct(Head(e), ",") THEN ParseMembers(Tail(e), items)
           ELSE IF IsPunct(Head(e), "}") THEN ParseOk(PyDict(items), Tail(e))
           ELSE ParseFail
ParseElements(toks, acc) ==
  LET val == ParseValue(toks) IN
  IF ~val.ok THEN ParseFail
  ELSE
    LET elems == Append(acc, val.val)
        e == SkipWhitespace(val.rest)
    IN IF e = <<>> THEN ParseFail
       ELSE IF IsPunct(Head(e), ",") THEN ParseElements(Tail(e), elems)
       ELSE IF IsPunct(Head(e), "]") THEN ParseOk(PyList(elems), Tail(e))
       ELSE ParseFail

\* json.load(f): one value, then nothing but white space ("Extra data" otherwise)
JsonLoad(toks) ==
  LET r == ParseValue(toks) IN
  IF r.ok /\ SkipWhitespace(r.rest) = <<>> THEN r ELSE ParseFail

\* ------------------------------------------------------- the inputs
otherKey == <<"o", "t", "h", "e", "r", "K", "e", "y">>
productName == <<"p", "r", "o", "d", "u", "c", "t", "N", "a", "m", "e">>
app == <<"a", "p", "p">>
active == <<"a", "c", "t", "i", "v", "e">>
zapcut == <<"z", "a", "p", "c", "u", "t">>
old == <<"o", "l", "d">>

\* top-level items the script has no business with
ExtraPool ==
  << <<otherKey, PyInt(1)>>,
     <<productName, PyStr(zapcut)>>,
     <<app, PyDict(<< <<bundle, PyBool(TRUE)>>, <<resources, PyList(<<PyStr(old)>>)>> >>)>> >>

NumExtra == IF MaxExtraKeys < Len(ExtraPool) THEN MaxExtraKeys ELSE Len(ExtraPool)

RECURSIVE Pick(_, _)
\* the items of ExtraPool whose index is in S, in pool order, from index i on
Pick(S, i) ==
  IF i > NumExtra THEN <<>>
  ELSE (IF i \in S THEN <<ExtraPool[i]>> ELSE <<>>) \o Pick(S, i + 1)

ExtraSeqs == { Pick(S, 1) : S \in SUBSET (1..NumExtra) }

\* values of "bundle" that are objects
BundleDicts ==
  { PyDict(<<>>),
    PyDict(<< <<active, PyBool(TRUE)>> >>),
    PyDict(<< <<resources, PyList(<<PyStr(old)>>)>>, <<active, PyBool(TRUE)>> >>),
    PyDict(<< <<active, PyBool(TRUE)>>, <<resources, PyStr(old)>> >>) }

\* values of "bundle" that are not objects
BundleNonDicts ==
  { PyStr(old), PyList(<<PyStr(resources)>>), PyInt(0), PyBool(FALSE), PyNone }

InsertAt(items, pos, item) ==
  SubSeq(items, 1, pos) \o <<item>> \o SubSeq(items, pos + 1, Len(items))

\* documents with an object at the root
ObjectDocs ==
  { PyDict(e) : e \in ExtraSeqs }
  \cup { PyDict(InsertAt(ep[1], ep[2], <<bundle, b>>)) :
           ep \in { x \in ExtraSeqs \X (0..NumExtra) : x[2] <= Len(x[1]) },
           b \in BundleDicts \cup BundleNonDicts }

\* documents with anything else at the root
NonObjectDocs ==
  { PyList(<<PyInt(1)>>), PyList(<<PyStr(bundle)>>), PyStr(old), PyStr(bundle),
    PyInt(1), PyBool(TRUE), PyNone }

\* file contents json.load rejects
MalformedTexts ==
  { <<>>,
    <<Punct("{"), Junk>>,
    <<Punct("{"), PyStr(otherKey), Punct(":"), Space, PyInt(1)>>,
    <<Punct("{"), PyStr(otherKey), Punct(":"), PyInt(1), Punct(","), Punct("}")>>,
    <<Punct("{"), PyInt(1), Punct(":"), PyInt(1), Punct("}")>>,
    <<Punct("{"), Punct("}"), Newline(0), Punct("{"), Punct("}")>> }

\* the same key twice: the last value wins
DuplicateKeyTexts ==
  { <<Punct("{"), PyStr(otherKey), Punct(":"), PyInt(1), Punct(","),
      PyStr(otherKey), Punct(":"), PyInt(2), Punct("}")>> }

InitialTexts ==
  { Compact(d) : d \in ObjectDocs \cup NonObjectDocs }
  \cup { FileText(d) : d \in ObjectDocs \cup NonObjectDocs }
  \cup MalformedTexts \cup DuplicateKeyTexts

NoFile == [exists |-> FALSE, content |-> <<>>]
RegularFile(text) == [exists |-> TRUE, content |-> text]

PlatformInputs == {macos_aarch64, macos_x86_64, linux_x86_64, windows_x86_64, linux_arm64}

\* ------------------------------------------------------- the state
VARIABLES
  file,       \* what the config path holds on disk
  pre,        \* what it held when the current invocation started
  pc,         \* the statement the invocation is at
  entry,      \* "cli": through main(); "call": update_tauri_config() directly
  platform,   \* the platform argument
  resourcesV, \* the local variable resources
  config,     \* the local variable config
  io,         \* the file-system operations the invocation has performed
  stderr,     \* lines on standard error
  stdout,     \* lines on standard output
  exitCode,   \* the exit status of the process, -1 while it runs
  runs,       \* number of invocations started
  prev        \* platform and exit status of the previous invocation

vars == <<file, pre, pc, entry, platform, resourcesV, config, io, stderr, stdout,
          exitCode, runs, prev>>

Line(msg, args) == [msg |-> msg, args |-> args]

Init ==
  /\ file \in {NoFile} \cup { RegularFile(text) : text \in InitialTexts }
  /\ pre = file
  /\ pc = "exited"
  /\ entry = "call"
  /\ platform = <<>>
  /\ resourcesV = <<>>
  /\ config = Unbound
  /\ io = {}
  /\ stderr = <<>>
  /\ stdout = <<>>
  /\ exitCode = 0
  /\ runs = 0
  /\ prev = [platform |-> <<>>, exitCode |-> -1]

\* a process is started on the config path, once the previous one is over
Invoke(e, p) ==
  /\ pc = "exited"
  /\ runs < MaxRuns
  /\ runs' = runs + 1
  /\ prev' = IF runs = 0 THEN prev ELSE [platform |-> platform, exitCode |-> exitCode]
  /\ entry' = e
  /\ platform' = p
  /\ pre' = file
  /\ pc' = IF e = "cli" THEN "parse_args" ELSE "check_platform"
  /\ resourcesV' = <<>>
  /\ config' = Unbound
  /\ io' = {}
  /\ stderr' = <<>>
  /\ stdout' = <<>>
  /\ exitCode' = -1
  /\ UNCHANGED file

\* the process ends with the given status; locals keep their last values
Exit(status) ==
  /\ pc' = "exited"
  /\ exitCode' = status

\* an exception nobody catches: traceback on stderr, status 1
Uncaught(exc) ==
  /\ stderr' = Append(stderr, Line("Traceback", <<exc>>))
  /\ Exit(1)

InSeq(x, s) == \E i \in 1..Len(s) : s[i] = x

\* main(): parser.parse_args() with choices on --platform
ParseArgsOk ==
  /\ pc = "parse_args"
  /\ InSeq(platform, platform_choices)
  /\ pc' = "check_platform"
  /\ UNCHANGED <<file, pre, entry, platform, resourcesV, config, io, stderr, stdout,
                 exitCode, runs, prev>>

\* argparse rejects the value: usage and "invalid choice" on stderr, status 2
ParseArgsInvalidChoice ==
  /\ pc = "parse_args"
  /\ ~InSeq(platform, platform_choices)
  /\ stderr' = stderr \o <<Line("usage", <<>>),
                           Line("invalid choice", <<platform>> \o platform_choices)>>
  /\ Exit(2)
  /\ UNCHANGED <<file, pre, entry, platform, resourcesV, config, io, stdout, runs, prev>>

\* the platform test placed after the config_file.exists() test
UnknownPlatform_AfterExists ==
  /\ pc = "check_platform"
  /\ ~HasKey(platform_resources, platform)
  /\ io' = io \cup {"exists"}
  /\ stderr' = stderr \o <<Line("Error: Unknown platform", <<platform>>),
                           Line("Valid platforms", Keys(platform_resources))>>
  /\ Exit(1)
  /\ UNCHANGED <<file, pre, entry, platform, resourcesV, config, stdout, runs, prev>>

\* if platform not in platform_resources: ... sys.exit(1)
UnknownPlatform ==
  /\ pc = "check_platform"
  /\ ~HasKey(platform_resources, platform)
  /\ stderr' = stderr \o <<Line("Error: Unknown platform", <<platform>>),
                           Line("Valid platforms", Keys(platform_resources))>>
  /\ Exit(1)
  /\ UNCHANGED <<file, pre, entry, platform, resourcesV, config, io, stdout, runs, prev>>

\* resources = platform_resources[platform]
ResolvePlatform ==
  /\ pc = "check_platform"
  /\ HasKey(platform_resources, platform)
  /\ resourcesV' = DictGet(platform_resources, platform)
  /\ pc' = "check_exists"
  /\ UNCHANGED <<file, pre, entry, platform, config, io, stderr, stdout, exitCode,
                 runs, prev>>

\* a missing file taken for an empty configuration
ConfigNotFound_StartsEmpty ==
  /\ pc = "check_exists"
  /\ ~file.exists
  /\ io' = io \cup {"exists"}
  /\ config' = PyDict(<<>>)
  /\ pc' = "apply"
  /\ UNCHANGED <<file, pre, entry, platform, resourcesV, stderr, stdout, exitCode,
                 runs, prev>>

\* if not config_file.exists(): ... sys.exit(1)
ConfigNotFound ==
  /\ pc = "check_exists"
  /\ ~file.exists
  /\ io' = io \cup {"exists"}
  /\ stderr' = Append(stderr, Line("Error: Config file not found", <<>>))
  /\ Exit(1)
  /\ UNCHANGED <<file, pre, entry, platform, resourcesV, config, stdout, runs, prev>>

ConfigExists ==
  /\ pc = "check_exists"
  /\ file.exists
  /\ io' = io \cup {"exists"}
  /\ pc' = "load"
  /\ UNCHANGED <<file, pre, entry, platform, resourcesV, config, stderr, stdout,
                 exitCode, runs, prev>>

\* with open(config_file, 'r') as f: config = json.load(f)
LoadConfig ==
  /\ pc = "load"
  /\ JsonLoad(file.content).ok
  /\ io' = io \cup {"open_r", "read"}
  /\ config' = JsonLoad(file.content).val
  /\ pc' = "apply"
  /\ UNCHANGED <<file, pre, entry, platform, resourcesV, stderr, stdout, exitCode,
                 runs, prev>>

\* except json.JSONDecodeError: config = {}
LoadConfigFails_Swallow ==
  /\ pc = "load"
  /\ ~JsonLoad(file.content).ok
  /\ io' = io \cup {"open_r", "read"}
  /\ config' = PyDict(<<>>)
  /\ pc' = "apply"
  /\ UNCHANGED <<file, pre, entry, platform, resourcesV, stderr, stdout, exitCode,
                 runs, prev>>

LoadConfigFails ==
  /\ pc = "load"
  /\ ~JsonLoad(file.content).ok
  /\ io' = io \cup {"open_r", "read"}
  /\ Uncaught("JSONDecodeError")
  /\ UNCHANGED <<file, pre, entry, platform, resourcesV, config, stdout, runs, prev>>

\* config['bundle'] = {} without the membership test
EnsureBundle_Always(cfg) ==
  IF Subscriptable(cfg) THEN PyDict(DictSet(cfg.v, bundle, PyDict(<<>>))) ELSE Unbound

\* if 'bundle' not in config: config['bundle'] = {}
\* the outcome is the new config, or Unbound when a TypeError is raised
EnsureBundle(cfg) ==
  CASE Contains(cfg, bundle) = "TypeError" -> Unbound
    [] Contains(cfg, bundle) = "yes" -> cfg
    [] OTHER -> IF Subscriptable(cfg)
                THEN PyDict(DictSet(cfg.v, bundle, PyDict(<<>>)))
                ELSE Unbound

\* config['resources'] = resources: the key set at the top level
SetResources_TopLevel(cfg, res) ==
  IF ~Subscriptable(cfg) THEN Unbound
  ELSE IF ~Subscriptable(DictGet(cfg.v, bundle)) THEN Unbound
  ELSE PyDict(DictSet(cfg.v, resources, res))

\* config['bundle'].setdefault('resources', []).extend(resources)
SetResources_Extend(cfg, res) ==
  IF ~Subscriptable(cfg) THEN Unbound
  ELSE IF ~Subscriptable(DictGet(cfg.v, bundle)) THEN Unbound
  ELSE LET b == DictGet(cfg.v, bundle).v
           prior == IF HasKey(b, resources) /\ DictGet(b, resources).t = "list"
                    THEN DictGet(b, resources).v ELSE <<>>
       IN PyDict(DictSet(cfg.v, bundle, PyDict(DictSet(b, resources, PyList(prior \o res.v)))))

\* a bundle that is not a dict is replaced by a fresh one
SetResources_Overwrite(cfg, res) ==
  IF ~Subscriptable(cfg) THEN Unbound
  ELSE IF ~Subscriptable(DictGet(cfg.v, bundle))
       THEN PyDict(DictSet(cfg.v, bundle, PyDict(<< <<resources, res>> >>)))
  ELSE PyDict(DictSet(cfg.v, bundle,
                      PyDict(DictSet(DictGet(cfg.v, bundle).v, resources, res))))

\* config['bundle']['resources'] = resources
SetResources(cfg, res) ==
  IF ~Subscriptable(cfg) THEN Unbound
  ELSE IF ~Subscriptable(DictGet(cfg.v, bundle)) THEN Unbound
  ELSE PyDict(DictSet(cfg.v, bundle,
                      PyDict(DictSet(DictGet(cfg.v, bundle).v, resources, res))))

\* lines 58-61 together
ApplyResourcesTo(cfg, res) ==
  IF EnsureBundle(cfg) = Unbound THEN Unbound
  ELSE SetResources(EnsureBundle(cfg), res)

\* the resources list as a document value
AsList(paths) == PyList([i \in 1..Len(paths) |-> PyStr(paths[i])])

ApplyResources ==
  /\ pc = "apply"
  /\ ApplyResourcesTo(config, AsList(resourcesV)) # Unbound
  /\ config' = ApplyResourcesTo(config, AsList(resourcesV))
  /\ pc' = "open_w"
  /\ UNCHANGED <<file, pre, entry, platform, resourcesV, io, stderr, stdout, exitCode,
                 runs, prev>>

\* a non-object root or a non-object bundle: TypeError.  config['bundle'] = {}
\* may already have been done on the in-memory document
ApplyResourcesFails ==
  /\ pc = "apply"
  /\ ApplyResourcesTo(config, AsList(resourcesV)) = Unbound
  /\ config' = IF EnsureBundle(config) = Unbound THEN config ELSE EnsureBundle(config)
  /\ Uncaught("TypeError")
  /\ UNCHANGED <<file, pre, entry, platform, resourcesV, io, stdout, runs, prev>>

\* with open(config_file, 'w') as f: the file is truncated when it opens
OpenForWrite ==
  /\ pc = "open_w"
  /\ io' = io \cup {"open_w"}
  /\ file' = RegularFile(<<>>)
  /\ pc' = "dump"
  /\ UNCHANGED <<pre, entry, platform, resourcesV, config, stderr, stdout, exitCode,
                 runs, prev>>

\* open() raises (permissions, read-only file system): nothing is changed
OpenForWriteFails ==
  /\ pc = "open_w"
  /\ io' = io \cup {"open_w"}
  /\ Uncaught("OSError")
  /\ UNCHANGED <<file, pre, entry, platform, resourcesV, config, stdout, runs, prev>>

\* json.dump(config, f, indent=2, ensure_ascii=False): one more chunk reaches the file
DumpChunk ==
  /\ pc = "dump"
  /\ Len(file.content) < Len(Encode(config, 0))
  /\ io' = io \cup {"write"}
  /\ file' = RegularFile(Append(file.content, Encode(config, 0)[Len(file.content) + 1]))
  /\ UNCHANGED <<pre, pc, entry, platform, resourcesV, config, stderr, stdout, exitCode,
                 runs, prev>>

\* f.write('\n')
WriteNewline ==
  /\ pc = "dump"
  /\ Len(file.content) = Len(Encode(config, 0))
  /\ io' = io \cup {"write"}
  /\ file' = RegularFile(Append(file.content, Newline(0)))
  /\ pc' = "report"
  /\ UNCHANGED <<pre, entry, platform, resourcesV, config, stderr, stdout, exitCode,
                 runs, prev>>

\* a write raises (disk full, I/O error): the file keeps what reached it
WriteFails ==
  /\ pc = "dump"
  /\ io' = io \cup {"write"}
  /\ Uncaught("OSError")
  /\ UNCHANGED <<file, pre, entry, platform, resourcesV, config, stdout, runs, prev>>

\* the three print() calls, then the function and main() return
ReportSuccess ==
  /\ pc = "report"
  /\ stdout' = stdout \o <<Line("Successfully updated", <<>>),
                           Line("Platform", <<platform>>),
                           Line("Resources", resourcesV)>>
  /\ Exit(0)
  /\ UNCHANGED <<file, pre, entry, platform, resourcesV, config, io, stderr, runs, prev>>

Next ==
  \/ \E e \in {"cli", "call"}, p \in PlatformInputs : Invoke(e, p)
  \/ ParseArgsOk
  \/ ParseArgsInvalidChoice
  \/ UnknownPlatform
  \/ ResolvePlatform
  \/ ConfigNotFound
  \/ ConfigExists
  \/ LoadConfig
  \/ LoadConfigFails
  \/ ApplyResources
  \/ ApplyResourcesFails
  \/ OpenForWrite
  \/ OpenForWriteFails
  \/ DumpChunk
  \/ WriteNewline
  \/ WriteFails
  \/ ReportSuccess

Spec == Init /\ [][Next]_vars

TypeOK == pc \in {"exited", "parse_args", "check_platform", "check_exists", "load",
                  "apply", "open_w", "dump", "report"}

\* ------------------------------------------------------- properties
\* the four identifiers the spec names as supported
SupportedPlatforms == {macos_aarch64, macos_x86_64, linux_x86_64, windows_x86_64}

\* an invocation has run and its process is over
Terminated == pc = "exited" /\ runs > 0
Succeeded == Terminated /\ exitCode = 0

\* the document the config path held when the invocation started
Before == JsonLoad(pre.content)
\* the document it holds now
After == JsonLoad(file.content)

\* the file held a JSON object whose "bundle" is absent or an object
PatchableInput ==
  /\ pre.exists
  /\ Before.ok
  /\ Before.val.t = "dict"
  /\ HasKey(Before.val.v, bundle) => DictGet(Before.val.v, bundle).t = "dict"

\* the resource list of platform p, as a document value
ExpectedResources(p) == AsList(DictGet(platform_resources, p))

\* stderr ends with the traceback of the given exception
FailedWith(exc) ==
  /\ exitCode = 1
  /\ stderr # <<>>
  /\ stderr[Len(stderr)] = Line("Traceback", <<exc>>)

\* C1: round trip.  After a successful run on a file whose root is an object
\* (bundle absent or an object), for a supported platform, the document reloaded
\* from the path has bundle.resources equal to the platform's list, and every
\* top-level key other than bundle is still there with the value it had.
RoundTrip ==
  (Succeeded /\ PatchableInput /\ platform \in SupportedPlatforms) =>
    /\ After.ok
    /\ After.val.t = "dict"
    /\ HasKey(After.val.v, bundle)
    /\ DictGet(After.val.v, bundle).t = "dict"
    /\ HasKey(DictGet(After.val.v, bundle).v, resources)
    /\ DictGet(DictGet(After.val.v, bundle).v, resources) = ExpectedResources(platform)
    /\ \A i \in 1..Len(Before.val.v) :
         Before.val.v[i][1] # bundle =>
           /\ HasKey(After.val.v, Before.val.v[i][1])
           /\ DictGet(After.val.v, Before.val.v[i][1]) = Before.val.v[i][2]

\* a successful run on a file that had another top-level key and an old
\* bundle.resources
RoundTripWitness ==
  /\ Succeeded
  /\ PatchableInput
  /\ platform = windows_x86_64
  /\ HasKey(Before.val.v, otherKey)
  /\ HasKey(Before.val.v, bundle)
  /\ HasKey(DictGet(Before.val.v, bundle).v, resources)
  /\ file # pre

\* the keys of a dict other than k, with their values, in order
RECURSIVE Without(_, _)
Without(items, k) ==
  IF items = <<>> THEN <<>>
  ELSE (IF Head(items)[1] = k THEN <<>> ELSE <<Head(items)>>) \o Without(Tail(items), k)

\* C2: frame of the mutation step.  Without a bundle key, a bundle object holding
\* only resources is added after the existing top-level keys, which keep order
\* and values; with a bundle object, it keeps its position, its keys other than
\* resources keep their values, and resources holds the new list.
ApplyFrame ==
  (pc = "open_w" /\ Before.ok /\ Before.val.t = "dict") =>
    LET b == Before.val.v
        a == config.v
        res == ExpectedResources(platform)
    IN /\ config.t = "dict"
       /\ ~HasKey(b, bundle) =>
            a = Append(b, <<bundle, PyDict(<< <<resources, res>> >>)>>)
       /\ (HasKey(b, bundle) /\ DictGet(b, bundle).t = "dict") =>
            /\ Keys(a) = Keys(b)
            /\ \A i \in 1..Len(b) : b[i][1] # bundle => a[i] = b[i]
            /\ DictGet(a, bundle).t = "dict"
            /\ Without(DictGet(a, bundle).v, resources)
                 = Without(DictGet(b, bundle).v, resources)
            /\ HasKey(DictGet(a, bundle).v, resources)
            /\ DictGet(DictGet(a, bundle).v, resources) = res
       /\ (b = << <<otherKey, PyInt(1)>> >> /\ platform = linux_x86_64) =>
            config = PyDict(<< <<otherKey, PyInt(1)>>,
                               <<bundle, PyDict(<< <<resources,
                                   PyList(<<PyStr(DictGet(platform_resources, linux_x86_64)[1]),
                                            PyStr(DictGet(platform_resources, linux_x86_64)[2])>>)>> >>)>> >>)

\* the mutation step has run on a bundle object that has a sibling key of
\* resources and stands before another top-level key
ApplyFrameWitness ==
  /\ pc = "open_w"
  /\ Before.ok
  /\ Before.val.t = "dict"
  /\ Len(Before.val.v) = 2
  /\ Before.val.v[1][1] = bundle
  /\ Before.val.v[1][2].t = "dict"
  /\ HasKey(Before.val.v[1][2].v, active)
  /\ HasKey(Before.val.v[1][2].v, resources)

\* C3: idempotence.  A successful run for platform p right after a successful run
\* for the same p leaves the file exactly as the first run left it.
Idempotent ==
  (Succeeded /\ prev.exitCode = 0 /\ prev.platform = platform) => file = pre

\* two successful runs in succession for the same platform
IdempotentWitness ==
  /\ Succeeded
  /\ runs = 2
  /\ prev.exitCode = 0
  /\ prev.platform = platform
  /\ HasKey(After.val.v, otherKey)

\* the complete patched document for the file and platform of this invocation
PatchedFile ==
  RegularFile(FileText(ApplyResourcesTo(Before.val, ExpectedResources(platform))))

\* C4: no partial-success state.  Once a run has terminated, the file holds either
\* its complete pre-run content or the complete patched document.
NoPartialWrite ==
  Terminated =>
    \/ file = pre
    \/ /\ platform \in SupportedPlatforms
       /\ PatchableInput
       /\ file = PatchedFile

IsPrefix(pfx, s) == Len(pfx) <= Len(s) /\ SubSeq(s, 1, Len(pfx)) = pfx
IsSuffix(sfx, s) == Len(sfx) <= Len(s) /\ SubSeq(s, Len(s) - Len(sfx) + 1, Len(s)) = sfx

\* the part of a path after its last "/"
RECURSIVE BaseName(_)
BaseName(path) ==
  IF \E i \in 1..Len(path) : path[i] = "/"
  THEN BaseName(SubSeq(path, (CHOOSE i \in 1..Len(path) : path[i] = "/") + 1, Len(path)))
  ELSE path

HasExtension(path) == \E i \in 1..Len(BaseName(path)) : BaseName(path)[i] = "."

\* C5: for each of the four supported platforms the resolved list is exactly two
\* paths, ffmpeg then ffprobe, both under binaries/<platform>/; the windows-x86_64
\* paths end in .exe and those of the other platforms have no extension.
ResolvedPaths ==
  /\ {platform_resources[i][1] : i \in 1..Len(platform_resources)} = SupportedPlatforms
  /\ (pc \in {"check_exists", "load", "apply", "open_w", "dump", "report"}) =>
       LET dir == <<"b", "i", "n", "a", "r", "i", "e", "s", "/">> \o platform \o <<"/">>
           exe == <<".", "e", "x", "e">>
       IN /\ platform \in SupportedPlatforms
          /\ Len(resourcesV) = 2
          /\ \A i \in 1..2 : IsPrefix(dir, resourcesV[i])
          /\ IF platform = windows_x86_64
             THEN /\ resourcesV[1] = dir \o <<"f", "f", "m", "p", "e", "g">> \o exe
                  /\ resourcesV[2] = dir \o <<"f", "f", "p", "r", "o", "b", "e">> \o exe
                  /\ \A i \in 1..2 : IsSuffix(exe, resourcesV[i])
             ELSE /\ resourcesV[1] = dir \o <<"f", "f", "m", "p", "e", "g">>
                  /\ resourcesV[2] = dir \o <<"f", "f", "p", "r", "o", "b", "e">>
                  /\ \A i \in 1..2 : ~HasExtension(resourcesV[i])

\* the list of each of the four platforms has been resolved
ResolvedPathsWitness ==
  /\ pc = "check_exists"
  /\ platform = windows_x86_64
  /\ Len(resourcesV) = 2
  /\ HasExtension(resourcesV[2])

\* C6: an unsupported platform is rejected before any file I/O: the config file is
\* not checked for existence, read, created or modified, whatever the path holds,
\* and the message on stderr enumerates the four valid identifiers.
UnknownPlatformRejected ==
  (Terminated /\ platform \notin SupportedPlatforms) =>
    /\ exitCode # 0
    /\ io = {}
    /\ file = pre
    /\ config = Unbound
    /\ \E i \in 1..Len(stderr) :
         \A p \in SupportedPlatforms : InSeq(p, stderr[i].args)

\* update_tauri_config("linux-arm64", path) has terminated, with no file at path
UnknownPlatformWitness ==
  /\ Terminated
  /\ entry = "call"
  /\ platform = linux_arm64
  /\ ~pre.exists
  /\ exitCode = 1

\* C7: a file that is not valid JSON, or whose root is not an object, makes the
\* run fail (json.load raises JSONDecodeError; a non-object root raises TypeError
\* before the write phase), and the file keeps exactly its original content.
ParseFailureLeavesFile ==
  (Terminated /\ platform \in SupportedPlatforms /\ pre.exists
     /\ (~Before.ok \/ Before.val.t # "dict")) =>
    /\ IF Before.ok THEN FailedWith("TypeError") ELSE FailedWith("JSONDecodeError")
    /\ file = pre
    /\ "open_w" \notin io
    /\ "write" \notin io
    /\ stdout = <<>>

\* a run on `{invalid` has terminated
ParseFailureWitness ==
  /\ Terminated
  /\ platform \in SupportedPlatforms
  /\ pre = RegularFile(<<Punct("{"), Junk>>)
  /\ exitCode = 1

\* a run on a file whose root is an array has terminated
NonObjectRootWitness ==
  /\ Terminated
  /\ platform \in SupportedPlatforms
  /\ pre.exists
  /\ Before.ok
  /\ Before.val.t = "list"

\* C8: with a supported platform and no file at the config path, the run fails
\* with the not-found error and there is still no file at the path afterwards.
MissingFileNotCreated ==
  (Terminated /\ platform \in SupportedPlatforms /\ ~pre.exists) =>
    /\ exitCode = 1
    /\ stderr = <<Line("Error: Config file not found", <<>>)>>
    /\ ~file.exists
    /\ io = {"exists"}
    /\ stdout = <<>>

\* a run for a supported platform has terminated where no file existed
MissingFileWitness ==
  /\ Terminated
  /\ platform = macos_aarch64
  /\ entry = "cli"
  /\ ~pre.exists

\* C9: through the command line, the exit status is 0 exactly when the config was
\* patched and written, and 1 on every failure (unknown platform, missing file,
\* parse failure, write failure).
ExitStatusContract ==
  (Terminated /\ entry = "cli") =>
    /\ exitCode = 0 <=>
         (platform \in SupportedPlatforms /\ PatchableInput /\ file = PatchedFile
            /\ stdout # <<>>)
    /\ exitCode # 0 => exitCode = 1

\* C10: when bundle exists and is not an object, the run fails with an error, the
\* bundle value is not overwritten, and the file keeps its original content.
NonObjectBundleFails ==
  (Terminated /\ platform \in SupportedPlatforms /\ pre.exists /\ Before.ok
     /\ Before.val.t = "dict" /\ HasKey(Before.val.v, bundle)
     /\ DictGet(Before.val.v, bundle).t # "dict") =>
    /\ FailedWith("TypeError")
    /\ config = Before.val
    /\ file = pre
    /\ "open_w" \notin io
    /\ stdout = <<>>

\* a run has terminated on a document whose bundle is a string
NonObjectBundleWitness ==
  /\ Terminated
  /\ platform \in SupportedPlatforms
  /\ pre.exists
  /\ Before.ok
  /\ Before.val.t = "dict"
  /\ HasKey(Before.val.v, bundle)
  /\ DictGet(Before.val.v, bundle).t = "str"
  /\ HasKey(Before.val.v, otherKey)
====
